---- MODULE Spec2Model ----
(***************************************************************************)
(* Model of the Moondream HTTP client (src/src/lib.rs).                    *)
(*                                                                         *)
(* A MoonDream value is a record of its five fields.  The variable md is   *)
(* the caller's client binding, kept is the list of clones the caller      *)
(* retains, and calls holds one slot per future returned by points,        *)
(* detect, caption or query.  Such a future borrows md (&self) until it is *)
(* dropped, so the by-value builders and a rebinding of md are only        *)
(* possible while no future is alive.                                      *)
(*                                                                         *)
(* reqwest is modelled by what the calls made in lib.rs do: the request    *)
(* builder chain collects method, url, headers, timeout and body; send()   *)
(* fails or yields a response; error_for_status() rejects 4xx and 5xx;     *)
(* json() reads the body and deserialises it with serde.                   *)
(***************************************************************************)
EXTENDS Integers, Sequences, FiniteSets, TLC

VARIABLES md, kept, calls, ctorToken

vars == <<md, kept, calls, ctorToken>>

-----------------------------------------------------------------------------
(* Bounds.                                                                 *)

MaxCalls == 2

MaxKept == 1

CallIds == 1..MaxCalls

-----------------------------------------------------------------------------
(* Input domains.                                                          *)

DefaultEndpoint == "https://api.moondream.ai/v1"

DefaultTimeoutSecs == 5

Tokens == {"token"}

Endpoints == {DefaultEndpoint, "http://localhost:8080"}

HeaderLists == {<<>>, << <<"X-Extra", "1">> >>}

Timeouts == {DefaultTimeoutSecs, 10}

DefaultHttpClient == "reqwest::Client::new()"

HttpClients == {DefaultHttpClient, "custom"}

Images == {"data:image/png;base64,AAA"}

Objects == {"object"}

Questions == {"What is this?"}

CaptionLength == {"Short", "Normal"}

LengthArgs == {<<>>} \cup {<<l>> : l \in CaptionLength}

-----------------------------------------------------------------------------
(* struct MoonDream, its derived constructor and setters.                  *)

MoonDream == [token : Tokens \cup {""}, endpoint : Endpoints,
              headers : HeaderLists, timeout : Timeouts, client : HttpClients]

new_default_timeout(token) ==
    [token |-> token, endpoint |-> DefaultEndpoint, headers |-> <<>>,
     timeout |-> 30, client |-> DefaultHttpClient]

new(token) ==
    [token |-> token, endpoint |-> DefaultEndpoint, headers |-> <<>>,
     timeout |-> DefaultTimeoutSecs, client |-> DefaultHttpClient]

with_endpoint(self, endpoint) == [self EXCEPT !.endpoint = endpoint]

with_headers(self, headers) == [self EXCEPT !.headers = headers]

with_timeout_rebuilt(self, timeout) == [new(self.token) EXCEPT !.timeout = timeout]

with_timeout(self, timeout) == [self EXCEPT !.timeout = timeout]

with_client(self, client) == [self EXCEPT !.client = client]

local(endpoint) == with_endpoint(new(""), endpoint)

remote(token) == new(token)

-----------------------------------------------------------------------------
(* reqwest::RequestBuilder, as the chain .post().header().timeout().json() *)
(* of each operation uses it.                                              *)

EmptyJson == [k \in {} |-> ""]

NoRequest ==
    [via |-> "", method |-> "", url |-> "", headers |-> <<>>, timeout |-> 0,
     body |-> EmptyJson]

post(client, url) ==
    [via |-> client, method |-> "POST", url |-> url, headers |-> <<>>,
     timeout |-> 0, body |-> EmptyJson]

header(rb, name, value) == [rb EXCEPT !.headers = Append(@, <<name, value>>)]

timeout(rb, secs) == [rb EXCEPT !.timeout = secs]

json(rb, value) ==
    [rb EXCEPT !.headers = Append(@, <<"content-type", "application/json">>),
               !.body = value]

as_str(length) ==
    CASE length = "Short" -> "short"
      [] length = "Normal" -> "normal"

unwrap_or(option, default) == IF option = <<>> THEN default ELSE option[1]

-----------------------------------------------------------------------------
(* The request each operation builds (lib.rs 131-139, 154-162, 177-185,    *)
(* 200-208).                                                               *)

points_request_no_auth(self, image, object) ==
    json(timeout(post(self.client, self.endpoint \o "/point"), self.timeout),
         [image_url |-> image, object |-> object])

points_request_plural(self, image, object) ==
    json(timeout(header(post(self.client, self.endpoint \o "/points"),
                        "X-Moondream-Auth", self.token),
                 self.timeout),
         [image_url |-> image, object |-> object])

points_request(self, image, object) ==
    json(timeout(header(post(self.client, self.endpoint \o "/point"),
                        "X-Moondream-Auth", self.token),
                 self.timeout),
         [image_url |-> image, object |-> object])

detect_request(self, image, object) ==
    json(timeout(header(post(self.client, self.endpoint \o "/detect"),
                        "X-Moondream-Auth", self.token),
                 self.timeout),
         [image_url |-> image, object |-> object])

caption_request_default_short(self, image, length) ==
    json(timeout(header(post(self.client, self.endpoint \o "/caption"),
                        "X-Moondream-Auth", self.token),
                 self.timeout),
         [image_url |-> image,
          length |-> as_str(unwrap_or(length, "Short"))])

caption_request(self, image, length) ==
    json(timeout(header(post(self.client, self.endpoint \o "/caption"),
                        "X-Moondream-Auth", self.token),
                 self.timeout),
         [image_url |-> image,
          length |-> as_str(unwrap_or(length, "Normal"))])

query_request(self, image, question) ==
    json(timeout(header(post(self.client, self.endpoint \o "/query"),
                        "X-Moondream-Auth", self.token),
                 self.timeout),
         [image_url |-> image, question |-> question])

-----------------------------------------------------------------------------
(* Responses: status line and body text as the server sends them.          *)

Statuses == {200, 304, 404, 500, 600}

FullJson == "{request_id, points, count, objects, caption, answer}"

AnswerJson == "{answer}"

NotJson == "<html>"

Bodies == {FullJson, AnswerJson, NotJson}

(* serde_json's reading of a body text: <<object>>, or <<>> when the text  *)
(* is no JSON.                                                             *)
serde_json_from_slice(text) ==
    CASE text = FullJson ->
           << [request_id |-> "abc",
               points |-> << [x |-> "0.5", y |-> "0.5"] >>,
               count |-> "1",
               objects |-> << [x_min |-> "0.1", y_min |-> "0.2",
                               x_max |-> "0.3", y_max |-> "0.4"] >>,
               caption |-> "a cat on a mat",
               answer |-> "It is a cat"] >>
      [] text = AnswerJson -> << [answer |-> "It is a cat"] >>
      [] OTHER -> <<>>

Optional(obj, key) == IF key \in DOMAIN obj THEN <<obj[key]>> ELSE <<>>

Pending == [tag |-> "Pending", value |-> <<>>, err |-> ""]

Ok(value) == [tag |-> "Ok", value |-> <<value>>, err |-> ""]

Err(kind) == [tag |-> "Err", value |-> <<>>, err |-> kind]

(* #[derive(Deserialize)]: a missing required field is an error, a        *)
(* missing Option field is None, unknown fields are ignored.  <<object>>   *)
(* when the text is a JSON object holding the required field, else <<>>.   *)
Deserialize(text, required) ==
    LET parsed == serde_json_from_slice(text)
    IN  IF parsed = <<>> THEN <<>>
        ELSE IF required \notin DOMAIN parsed[1] THEN <<>>
        ELSE parsed

PointsResponse(text) ==
    LET o == Deserialize(text, "points")
    IN  IF o = <<>> THEN Err("decode")
        ELSE Ok([request_id |-> Optional(o[1], "request_id"),
                 points |-> o[1].points,
                 count |-> Optional(o[1], "count")])

DetectResponse(text) ==
    LET o == Deserialize(text, "objects")
    IN  IF o = <<>> THEN Err("decode")
        ELSE Ok([request_id |-> Optional(o[1], "request_id"),
                 objects |-> o[1].objects])

CaptionResponse(text) ==
    LET o == Deserialize(text, "caption")
    IN  IF o = <<>> THEN Err("decode")
        ELSE Ok([request_id |-> Optional(o[1], "request_id"),
                 caption |-> o[1].caption])

QueryResponse(text) ==
    LET o == Deserialize(text, "answer")
    IN  IF o = <<>> THEN Err("decode")
        ELSE Ok([request_id |-> Optional(o[1], "request_id"),
                 answer |-> o[1].answer])

(* Response::json::<T>() with T the operation's result type.               *)
response_json(op, text) ==
    CASE op = "points" -> PointsResponse(text)
      [] op = "detect" -> DetectResponse(text)
      [] op = "caption" -> CaptionResponse(text)
      [] op = "query" -> QueryResponse(text)

error_for_status_4xx_only(status) == 400 <= status /\ status < 500

error_for_status_absent(status) == FALSE

(* Response::error_for_status: is_client_error() || is_server_error().     *)
error_for_status(status) ==
    \/ 400 <= status /\ status < 500
    \/ 500 <= status /\ status < 600

-----------------------------------------------------------------------------
(* State.                                                                  *)

IdleCall ==
    [pc |-> "idle", op |-> "", image |-> "", arg |-> <<>>,
     request |-> NoRequest, sends |-> 0, status |-> 0, body |-> "",
     result |-> Pending]

(* The future of an operation at its first await: the request is built and *)
(* handed to send() once.                                                  *)
Sent(op, image, arg, request) ==
    [pc |-> "send", op |-> op, image |-> image, arg |-> arg,
     request |-> request, sends |-> 1, status |-> 0, body |-> "",
     result |-> Pending]

NoFuture == \A c \in CallIds : calls[c].pc = "idle"

Init ==
    /\ \E token \in Tokens : md = remote(token) /\ ctorToken = token
    /\ kept = <<>>
    /\ calls = [c \in CallIds |-> IdleCall]

-----------------------------------------------------------------------------
(* Constructors and builders.  Each takes or returns the client by value:  *)
(* the caller rebinds md to what it returns.                               *)

Local(endpoint) ==
    /\ NoFuture
    /\ md' = local(endpoint)
    /\ ctorToken' = ""
    /\ UNCHANGED <<kept, calls>>

Remote(token) ==
    /\ NoFuture
    /\ md' = remote(token)
    /\ ctorToken' = token
    /\ UNCHANGED <<kept, calls>>

WithEndpoint(endpoint) ==
    /\ NoFuture
    /\ md' = with_endpoint(md, endpoint)
    /\ UNCHANGED <<kept, calls, ctorToken>>

WithHeaders(headers) ==
    /\ NoFuture
    /\ md' = with_headers(md, headers)
    /\ UNCHANGED <<kept, calls, ctorToken>>

WithTimeout(secs) ==
    /\ NoFuture
    /\ md' = with_timeout(md, secs)
    /\ UNCHANGED <<kept, calls, ctorToken>>

WithClient(client) ==
    /\ NoFuture
    /\ md' = with_client(md, client)
    /\ UNCHANGED <<kept, calls, ctorToken>>

(* #[derive(Clone)]: md.clone() is retained by the caller.                 *)
Clone ==
    /\ Len(kept) < MaxKept
    /\ kept' = Append(kept, md)
    /\ UNCHANGED <<md, calls, ctorToken>>

DropKept ==
    /\ kept # <<>>
    /\ kept' = Tail(kept)
    /\ UNCHANGED <<md, calls, ctorToken>>

-----------------------------------------------------------------------------
(* The four operations, up to their first await.                           *)

points(c, image, object) ==
    /\ calls[c].pc = "idle"
    /\ calls' = [calls EXCEPT ![c] =
                    Sent("points", image, <<object>>,
                         points_request(md, image, object))]
    /\ UNCHANGED <<md, kept, ctorToken>>

detect(c, image, object) ==
    /\ calls[c].pc = "idle"
    /\ calls' = [calls EXCEPT ![c] =
                    Sent("detect", image, <<object>>,
                         detect_request(md, image, object))]
    /\ UNCHANGED <<md, kept, ctorToken>>

caption(c, image, length) ==
    /\ calls[c].pc = "idle"
    /\ calls' = [calls EXCEPT ![c] =
                    Sent("caption", image, length,
                         caption_request(md, image, length))]
    /\ UNCHANGED <<md, kept, ctorToken>>

query(c, image, question) ==
    /\ calls[c].pc = "idle"
    /\ calls' = [calls EXCEPT ![c] =
                    Sent("query", image, <<question>>,
                         query_request(md, image, question))]
    /\ UNCHANGED <<md, kept, ctorToken>>

-----------------------------------------------------------------------------
(* The rest of an operation: .send().await?.error_for_status()? and then   *)
(* Ok(result.json().await?).                                               *)

SendFailsRetry(c) ==
    /\ calls[c].pc = "send"
    /\ calls' = [calls EXCEPT ![c].sends = @ + 1]
    /\ calls[c].sends < 2
    /\ UNCHANGED <<md, kept, ctorToken>>

(* send() fails (the request cannot be built, no connection, timeout): the *)
(* first ? returns the error.                                              *)
SendFails(c) ==
    /\ calls[c].pc = "send"
    /\ calls' = [calls EXCEPT ![c].pc = "done", ![c].result = Err("send")]
    /\ UNCHANGED <<md, kept, ctorToken>>

RespondFailsAll(c, status, body) ==
    /\ calls[c].pc = "send"
    /\ calls' = [d \in CallIds |->
                   IF d = c
                   THEN IF error_for_status(status)
                        THEN [calls[c] EXCEPT !.pc = "done", !.status = status,
                                 !.body = body, !.result = Err("status")]
                        ELSE [calls[c] EXCEPT !.pc = "json", !.status = status,
                                 !.body = body]
                   ELSE IF error_for_status(status) /\ calls[d].pc = "send"
                        THEN [calls[d] EXCEPT !.pc = "done",
                                 !.result = Err("send")]
                        ELSE calls[d]]
    /\ UNCHANGED <<md, kept, ctorToken>>

(* send() yields a response: error_for_status()? returns the error for an  *)
(* error status, and otherwise the operation goes on to read the body.     *)
Respond(c, status, body) ==
    /\ calls[c].pc = "send"
    /\ calls' = [calls EXCEPT ![c] =
                    IF error_for_status(status)
                    THEN [@ EXCEPT !.pc = "done", !.status = status,
                             !.body = body, !.result = Err("status")]
                    ELSE [@ EXCEPT !.pc = "json", !.status = status,
                             !.body = body]]
    /\ UNCHANGED <<md, kept, ctorToken>>

(* result.json().await? with the body read in full.                        *)
Json(c) ==
    /\ calls[c].pc = "json"
    /\ calls' = [calls EXCEPT ![c].pc = "done",
                    ![c].result = response_json(calls[c].op, calls[c].body)]
    /\ UNCHANGED <<md, kept, ctorToken>>

(* result.json().await? when reading the body fails or times out.          *)
BodyFails(c) ==
    /\ calls[c].pc = "json"
    /\ calls' = [calls EXCEPT ![c].pc = "done", ![c].result = Err("body")]
    /\ UNCHANGED <<md, kept, ctorToken>>

(* The caller drops the future (after its completion, or to cancel it).    *)
Drop(c) ==
    /\ calls[c].pc # "idle"
    /\ calls' = [calls EXCEPT ![c] = IdleCall]
    /\ UNCHANGED <<md, kept, ctorToken>>

-----------------------------------------------------------------------------

Configure ==
    \/ \E endpoint \in Endpoints : Local(endpoint)
    \/ \E token \in Tokens : Remote(token)
    \/ \E endpoint \in Endpoints : WithEndpoint(endpoint)
    \/ \E headers \in HeaderLists : WithHeaders(headers)
    \/ \E secs \in Timeouts : WithTimeout(secs)
    \/ \E client \in HttpClients : WithClient(client)

Operate ==
    \E c \in CallIds :
        \/ \E image \in Images, object \in Objects : points(c, image, object)
        \/ \E image \in Images, object \in Objects : detect(c, image, object)
        \/ \E image \in Images, length \in LengthArgs : caption(c, image, length)
        \/ \E image \in Images, question \in Questions : query(c, image, question)
        \/ SendFails(c)
        \/ \E status \in Statuses, body \in Bodies : Respond(c, status, body)
        \/ Json(c)
        \/ BodyFails(c)
        \/ Drop(c)

Next == Configure \/ Operate

Spec == Init /\ [][Next]_vars

NextBuild == Configure \/ Clone \/ DropKept

SpecBuild == Init /\ [][NextBuild]_vars

-----------------------------------------------------------------------------
(* Shape of the state.                                                     *)

TypeOK ==
    /\ md \in MoonDream
    /\ kept \in Seq(MoonDream) /\ Len(kept) <= MaxKept
    /\ ctorToken \in Tokens \cup {""}
    /\ \A c \in CallIds :
          /\ calls[c].pc \in {"idle", "send", "json", "done"}
          /\ calls[c].result.tag \in {"Pending", "Ok", "Err"}

InFlight(c) == calls[c].pc # "idle"

Done(c) == calls[c].pc = "done"

HasHeader(request, pair) ==
    \E j \in 1..Len(request.headers) : request.headers[j] = pair

(* The values of every header of the request with the given name.          *)
HeaderValues(request, name) ==
    LET idx == {j \in 1..Len(request.headers) : request.headers[j][1] = name}
    IN  {request.headers[j][2] : j \in idx}

HeaderCount(request, name) ==
    Cardinality({j \in 1..Len(request.headers) : request.headers[j][1] = name})

-----------------------------------------------------------------------------
(* Claims.                                                                 *)

(* C1: every request an operation sends carries, besides X-Moondream-Auth, *)
(* every (name, value) pair of the client's configured extra headers.      *)
C1_ExtraHeadersSent ==
    \A c \in CallIds :
        InFlight(c) =>
            /\ HeaderCount(calls[c].request, "X-Moondream-Auth") = 1
            /\ \A i \in 1..Len(md.headers) :
                  HasHeader(calls[c].request, md.headers[i])

C4_AuthHeaderIsCtorToken ==
    /\ md.token = ctorToken
    /\ \A c \in CallIds :
          InFlight(c) =>
              /\ HeaderCount(calls[c].request, "X-Moondream-Auth") = 1
              /\ HeaderValues(calls[c].request, "X-Moondream-Auth") = {ctorToken}

C4_Witness ==
    \E c, d \in CallIds :
        /\ ctorToken = ""
        /\ md.headers # <<>> /\ md.timeout # 5 /\ md.client # DefaultHttpClient
        /\ md.endpoint = DefaultEndpoint
        /\ calls[c].op = "points" /\ calls[d].op = "query"
        /\ HasHeader(calls[c].request, <<"X-Moondream-Auth", "">>)
        /\ HasHeader(calls[d].request, <<"X-Moondream-Auth", "">>)

(* C5: caption(image, None) sends the request caption(image, Some(Normal)) *)
(* sends, with "length": "normal", and yields the same outcome for the     *)
(* same response; Some(Short) sends "length": "short".                     *)
C5_CaptionDefaultsToNormal ==
    \A c \in CallIds :
        (InFlight(c) /\ calls[c].op = "caption") =>
            /\ calls[c].arg = <<>> => calls[c].request.body.length = "normal"
            /\ calls[c].arg = <<"Normal">> =>
                  calls[c].request.body.length = "normal"
            /\ calls[c].arg = <<"Short">> =>
                  calls[c].request.body.length = "short"
            /\ \A d \in CallIds :
                  ( /\ InFlight(d) /\ calls[d].op = "caption"
                    /\ calls[d].image = calls[c].image
                    /\ calls[c].arg = <<>> /\ calls[d].arg = <<"Normal">> ) =>
                      /\ calls[c].request = calls[d].request
                      /\ ( /\ Done(c) /\ Done(d)
                           /\ calls[c].status = calls[d].status
                           /\ calls[c].body = calls[d].body
                           /\ calls[c].result.err \notin {"send", "body"}
                           /\ calls[d].result.err \notin {"send", "body"} )
                          => calls[c].result = calls[d].result

C5_Witness ==
    \E c, d \in CallIds :
        /\ calls[c].op = "caption" /\ calls[d].op = "caption"
        /\ calls[c].arg = <<>> /\ calls[d].arg = <<"Normal">>
        /\ Done(c) /\ Done(d)
        /\ calls[c].status = 200 /\ calls[d].status = 200
        /\ calls[c].result.tag = "Ok" /\ calls[d].result.tag = "Ok"

(* C6: with_timeout(d) yields a client with timeout d and the token,       *)
(* endpoint, headers and transport of its input, and leaves every retained *)
(* clone as it was; with_endpoint and with_headers likewise change only    *)
(* their own field.                                                        *)
C6_BuildersChangeOneField ==
    [][ /\ \A secs \in Timeouts :
              WithTimeout(secs) =>
                  /\ md'.timeout = secs
                  /\ md'.token = md.token /\ md'.endpoint = md.endpoint
                  /\ md'.headers = md.headers /\ md'.client = md.client
                  /\ kept' = kept
        /\ \A endpoint \in Endpoints :
              WithEndpoint(endpoint) =>
                  /\ md'.endpoint = endpoint
                  /\ md'.token = md.token /\ md'.timeout = md.timeout
                  /\ md'.headers = md.headers /\ md'.client = md.client
                  /\ kept' = kept
        /\ \A headers \in HeaderLists :
              WithHeaders(headers) =>
                  /\ md'.headers = headers
                  /\ md'.token = md.token /\ md'.timeout = md.timeout
                  /\ md'.endpoint = md.endpoint /\ md'.client = md.client
                  /\ kept' = kept
      ]_vars

C6_Witness ==
    /\ kept # <<>>
    /\ kept[1].timeout = 5 /\ md.timeout = 10
    /\ kept[1].headers # <<>> /\ md.headers = kept[1].headers
    /\ kept[1].endpoint # DefaultEndpoint /\ md.endpoint = kept[1].endpoint
    /\ md.token = kept[1].token /\ md.client = kept[1].client

(* C7: local(e) yields token "" and endpoint e, remote(t) yields token t   *)
(* and endpoint "https://api.moondream.ai/v1"; both have no extra headers  *)
(* and a timeout of 5 seconds.                                             *)
C7_Constructors ==
    [][ /\ \A endpoint \in Endpoints :
              Local(endpoint) =>
                  /\ md'.token = "" /\ md'.endpoint = endpoint
                  /\ md'.headers = <<>> /\ md'.timeout = 5
        /\ \A token \in Tokens :
              Remote(token) =>
                  /\ md'.token = token
                  /\ md'.endpoint = "https://api.moondream.ai/v1"
                  /\ md'.headers = <<>> /\ md'.timeout = 5
      ]_vars

C7_Witness ==
    /\ md.token = "" /\ md.endpoint = "http://localhost:8080"
    /\ md.headers = <<>> /\ md.timeout = 5
    /\ kept # <<>> /\ kept[1].token = "token" /\ kept[1].headers # <<>>

C9_CallsIndependent ==
    [][ /\ \A c \in CallIds :
              calls'[c] # calls[c] =>
                  /\ md' = md
                  /\ \A d \in CallIds \ {c} : calls'[d] = calls[d]
        /\ \A c, d \in CallIds :
              /\ ( /\ calls'[c].pc # "idle" /\ calls'[d].pc # "idle"
                   /\ calls'[c].op = calls'[d].op
                   /\ calls'[c].image = calls'[d].image
                   /\ calls'[c].arg = calls'[d].arg )
                 => calls'[c].request = calls'[d].request
              /\ ( /\ calls'[c].pc = "done" /\ calls'[d].pc = "done"
                   /\ calls'[c].op = calls'[d].op
                   /\ calls'[c].status = calls'[d].status
                   /\ calls'[c].body = calls'[d].body
                   /\ calls'[c].result.err \notin {"send", "body"}
                   /\ calls'[d].result.err \notin {"send", "body"} )
                 => calls'[c].result = calls'[d].result
      ]_vars

C9_Witness ==
    \E c, d \in CallIds :
        /\ c # d
        /\ calls[c].op = calls[d].op
        /\ Done(c) /\ calls[c].result.tag = "Err"
        /\ Done(d) /\ calls[d].result.tag = "Ok"
        /\ calls[c].request = calls[d].request

(* C10: each operation POSTs to the endpoint followed by "/" and its own   *)
(* suffix, with a JSON body of exactly two keys: image_url, the image      *)
(* argument, and the operation's task key, the task argument.              *)
C10_UrlAndBody ==
    \A c \in CallIds :
        InFlight(c) =>
            LET r == calls[c].request
                suffix == CASE calls[c].op = "points" -> "point"
                            [] calls[c].op = "detect" -> "detect"
                            [] calls[c].op = "caption" -> "caption"
                            [] calls[c].op = "query" -> "query"
                key == CASE calls[c].op = "points" -> "object"
                         [] calls[c].op = "detect" -> "object"
                         [] calls[c].op = "caption" -> "length"
                         [] calls[c].op = "query" -> "question"
                task == CASE calls[c].op = "caption" /\ calls[c].arg = <<>> -> "normal"
                          [] calls[c].op = "caption" /\ calls[c].arg = <<"Normal">> -> "normal"
                          [] calls[c].op = "caption" /\ calls[c].arg = <<"Short">> -> "short"
                          [] OTHER -> calls[c].arg[1]
            IN  /\ r.method = "POST"
                /\ r.url = md.endpoint \o "/" \o suffix
                /\ DOMAIN r.body = {"image_url", key}
                /\ r.body.image_url = calls[c].image
                /\ r.body[key] = task

C10_Witness ==
    \E c, d \in CallIds :
        /\ calls[c].request.url = "http://localhost:8080/point"
        /\ calls[d].request.url = "http://localhost:8080/query"
        /\ calls[d].request.body.question = "What is this?"

====
